---------------------------- MODULE Spec2Model ----------------------------
(***************************************************************************)
(* Model of the AI-text detector of EssayWriter (src/ai_detector.py):      *)
(* calculate_perplexity_score and generate_analysis.                       *)
(*                                                                         *)
(* A text is a sequence of one-character strings.  Python floats are       *)
(* IEEE-754 doubles: the values that reach the score, the rounding to one  *)
(* decimal place and the rounded metrics are computed here with the        *)
(* arithmetic of doubles (53-bit mantissa, round to nearest, ties to       *)
(* even), on integers of arbitrary size kept as sequences of limbs.        *)
(***************************************************************************)
EXTENDS Integers, Sequences, FiniteSets

(***************************************************************************)
(* Characters: what str.lower, \w, \s and [.!?] make of them.              *)
(***************************************************************************)
LowerSeq == <<"a","b","c","d","e","f","g","h","i","j","k","l","m",
              "n","o","p","q","r","s","t","u","v","w","x","y","z">>
UpperSeq == <<"A","B","C","D","E","F","G","H","I","J","K","L","M",
              "N","O","P","Q","R","S","T","U","V","W","X","Y","Z">>
Digits == {"0","1","2","3","4","5","6","7","8","9"}

Range(s) == {s[i] : i \in 1..Len(s)}

LowerOf ==
    [c \in Range(UpperSeq) |-> LowerSeq[CHOOSE i \in 1..Len(UpperSeq) : UpperSeq[i] = c]]
Spaces == {" ", "\t", "\n"}
Terminators == {".", "!", "?"}
WordChars == Range(LowerSeq) \cup Range(UpperSeq) \cup Digits \cup {"_"}

ToLower(c) == IF c \in DOMAIN LowerOf THEN LowerOf[c] ELSE c
IsSpace(c) == c \in Spaces
IsTerm(c) == c \in Terminators
IsWordChar(c) == c \in WordChars

Lower(t) == [i \in 1..Len(t) |-> ToLower(t[i])]

(* re.sub(r'[^\w\s\.\!\?]', '', text.lower()) *)
KeptChar(c) == IsWordChar(c) \/ IsSpace(c) \/ IsTerm(c)
Normalize(t) == SelectSeq(Lower(t), KeptChar)

(***************************************************************************)
(* str.strip, str.split and re.split.  Positions are collected by halving  *)
(* the range, so that the depth of the recursion is logarithmic in the     *)
(* length of the text.                                                     *)
(***************************************************************************)
RECURSIVE Positions(_, _, _)
Positions(mask, lo, hi) ==
    IF lo > hi THEN <<>>
    ELSE IF lo = hi THEN (IF mask[lo] THEN <<lo>> ELSE <<>>)
    ELSE LET mid == (lo + hi) \div 2
         IN  Positions(mask, lo, mid) \o Positions(mask, mid + 1, hi)

Strip(s) ==
    IF \A i \in 1..Len(s) : IsSpace(s[i]) THEN <<>>
    ELSE LET lo == CHOOSE i \in 1..Len(s) :
                       ~IsSpace(s[i]) /\ \A j \in 1..(i - 1) : IsSpace(s[j])
             hi == CHOOSE i \in 1..Len(s) :
                       ~IsSpace(s[i]) /\ \A j \in (i + 1)..Len(s) : IsSpace(s[j])
         IN  SubSeq(s, lo, hi)

(* The maximal runs of the characters that are not separators. *)
Runs(s, IsSep(_)) ==
    LET n == Len(s)
        starts == Positions([i \in 1..n |-> ~IsSep(s[i]) /\ (i = 1 \/ IsSep(s[i - 1]))], 1, n)
        ends == Positions([i \in 1..n |-> ~IsSep(s[i]) /\ (i = n \/ IsSep(s[i + 1]))], 1, n)
    IN  IF starts = <<>> THEN <<>>
        ELSE [k \in 1..Len(starts) |-> SubSeq(s, starts[k], ends[k])]

(* s.split(): the whitespace-delimited tokens, none of them empty. *)
Split(s) == Runs(s, IsSpace)

(* re.split(r'[.!?]+', s): the pieces between runs of terminators; a text *)
(* that starts or ends with a terminator yields an empty piece there.     *)
ReSplit(s) ==
    IF s = <<>> THEN << <<>> >>
    ELSE (IF IsTerm(s[1]) THEN << <<>> >> ELSE <<>>)
         \o Runs(s, IsTerm)
         \o (IF IsTerm(s[Len(s)]) THEN << <<>> >> ELSE <<>>)

NonBlank(s) == Strip(s) # <<>>

(* [s.strip() for s in re.split(r'[.!?]+', text) if s.strip()] *)
Sentences(t) ==
    LET kept == SelectSeq(ReSplit(t), NonBlank)
    IN  IF kept = <<>> THEN <<>> ELSE [k \in 1..Len(kept) |-> Strip(kept[k])]

(***************************************************************************)
(* Natural numbers of arbitrary size: sequences of limbs, least            *)
(* significant first, without leading zero limbs (zero is <<>>).           *)
(***************************************************************************)
Base == 2^15

RECURSIVE BitLenNat(_)
BitLenNat(n) == IF n = 0 THEN 0 ELSE 1 + BitLenNat(n \div 2)

LimbBits == BitLenNat(Base) - 1

RECURSIVE Trim(_)
Trim(a) ==
    IF a = <<>> \/ a[Len(a)] # 0 THEN a ELSE Trim(SubSeq(a, 1, Len(a) - 1))

RECURSIVE FromNat(_)
FromNat(n) == IF n = 0 THEN <<>> ELSE <<n % Base>> \o FromNat(n \div Base)

RECURSIVE ToNat(_)
ToNat(a) == IF a = <<>> THEN 0 ELSE a[1] + Base * ToNat(Tail(a))

RECURSIVE MulCarry(_, _, _, _)
MulCarry(a, m, i, c) ==
    IF i > Len(a) THEN FromNat(c)
    ELSE <<(a[i] * m + c) % Base>> \o MulCarry(a, m, i + 1, (a[i] * m + c) \div Base)

(* a * m, for 0 <= m <= Base *)
MulSmall(a, m) == Trim(MulCarry(a, m, 1, 0))

Limb(a, i) == IF i <= Len(a) THEN a[i] ELSE 0

RECURSIVE AddCarry(_, _, _, _)
AddCarry(a, b, i, c) ==
    IF i > Len(a) /\ i > Len(b) THEN FromNat(c)
    ELSE LET x == Limb(a, i) + Limb(b, i) + c
         IN  <<x % Base>> \o AddCarry(a, b, i + 1, x \div Base)

Add(a, b) == AddCarry(a, b, 1, 0)

RECURSIVE SubBorrow(_, _, _, _)
SubBorrow(a, b, i, c) ==
    IF i > Len(a) THEN <<>>
    ELSE LET x == a[i] - Limb(b, i) - c
         IN  <<x % Base>> \o SubBorrow(a, b, i + 1, IF x < 0 THEN 1 ELSE 0)

(* a - b, for a >= b *)
Sub(a, b) == Trim(SubBorrow(a, b, 1, 0))

RECURSIVE CmpFrom(_, _, _)
CmpFrom(a, b, i) ==
    IF i = 0 THEN 0
    ELSE IF a[i] < b[i] THEN -1
    ELSE IF a[i] > b[i] THEN 1
    ELSE CmpFrom(a, b, i - 1)

(* -1, 0 or 1 as a < b, a = b or a > b *)
Cmp(a, b) ==
    IF Len(a) < Len(b) THEN -1
    ELSE IF Len(a) > Len(b) THEN 1
    ELSE CmpFrom(a, b, Len(a))

RECURSIVE DivFrom(_, _, _, _)
DivFrom(a, d, i, r) ==
    IF i = 0 THEN [q |-> <<>>, r |-> r]
    ELSE LET x == r * Base + a[i]
             rest == DivFrom(a, d, i - 1, x % d)
         IN  [q |-> Append(rest.q, x \div d), r |-> rest.r]

(* quotient and remainder of a by d, for 0 < d < 2 * Base *)
DivSmall(a, d) ==
    LET res == DivFrom(a, d, Len(a), 0) IN [q |-> Trim(res.q), r |-> res.r]

Zeros(k) == [i \in 1..k |-> 0]

ShiftLeft(a, s) ==
    IF a = <<>> THEN <<>>
    ELSE Zeros(s \div LimbBits) \o MulSmall(a, 2^(s % LimbBits))

(* floor(a / 2^s) *)
ShiftRight(a, s) ==
    IF Len(a) <= s \div LimbBits THEN <<>>
    ELSE DivSmall(SubSeq(a, (s \div LimbBits) + 1, Len(a)), 2^(s % LimbBits)).q


BitLen(a) == IF a = <<>> THEN 0 ELSE LimbBits * (Len(a) - 1) + BitLenNat(a[Len(a)])

IsOdd(a) == a # <<>> /\ a[1] % 2 = 1

(* a / 2^s rounded to the nearest integer, ties to the even one (s >= 1) *)
RoundShift(a, s) ==
    LET half == ShiftLeft(<<1>>, s - 1)
        bias == IF IsOdd(ShiftRight(a, s)) THEN half ELSE Sub(half, <<1>>)
    IN  ShiftRight(Add(a, bias), s)

RECURSIVE PowMul(_, _, _)
(* a * m^k, the k factors taken by halves *)
PowMul(a, m, k) ==
    IF k = 0 THEN a
    ELSE IF k = 1 THEN MulSmall(a, m)
    ELSE LET half == PowMul(a, m, k \div 2)
         IN  IF half = <<>> THEN <<>> ELSE PowMul(half, m, k - k \div 2)

(***************************************************************************)
(* Doubles: [m, e] is the number m * 2^e, m of at most MantBits bits.      *)
(* Every operation computes the exact result and rounds it once.           *)
(***************************************************************************)
MantBits == 53

Fl(x) ==
    LET over == BitLen(x.m) - MantBits
    IN  IF over <= 0 THEN x ELSE [m |-> RoundShift(x.m, over), e |-> x.e + over]

FlInt(n) == [m |-> FromNat(n), e |-> 0]

(* k / n of two ints (true division, correctly rounded), 0 <= k, 0 < n *)
FlDiv(k, n) ==
    LET s == MantBits + 2 * LimbBits
        d == DivSmall(ShiftLeft(FromNat(k), s), n)
        sticky == IF d.r = 0 THEN <<>> ELSE <<1>>
    IN  Fl([m |-> Add(MulSmall(d.q, 2), sticky), e |-> -(s + 1)])

(* x * c for an int c, 0 <= c <= Base *)
FlMulInt(x, c) == Fl([m |-> MulSmall(x.m, c), e |-> x.e])

MinExp(x, y) == IF x.e < y.e THEN x.e ELSE y.e
Aligned(x, e) == ShiftLeft(x.m, x.e - e)

FlAdd(x, y) ==
    LET e == MinExp(x, y) IN Fl([m |-> Trim(Add(Aligned(x, e), Aligned(y, e))), e |-> e])

(* x - y, for x >= y *)
FlSub(x, y) ==
    LET e == MinExp(x, y) IN Fl([m |-> Sub(Aligned(x, e), Aligned(y, e)), e |-> e])

FlCmp(x, y) == LET e == MinExp(x, y) IN Cmp(Aligned(x, e), Aligned(y, e))
FlLess(x, y) == FlCmp(x, y) = -1
FlMin(x, y) == IF FlLess(y, x) THEN y ELSE x
FlMax(x, y) == IF FlLess(x, y) THEN y ELSE x

(* round(x, ndigits) with scale = 10^ndigits, as the number of 1/scale:   *)
(* the decimal nearest to the exact value of the double, ties to even.    *)
RoundDec(x, scale) ==
    LET n == MulSmall(x.m, scale)
    IN  ToNat(IF x.e >= 0 THEN ShiftLeft(n, x.e) ELSE RoundShift(n, -x.e))

(* A decimal literal n/d of the source: the double nearest to it. *)
Literal(n, d) == FlDiv(n, d)

(***************************************************************************)
(* The five metrics (lines 30-67).                                         *)
(***************************************************************************)
RECURSIVE SumRange(_, _, _)
SumRange(s, lo, hi) ==
    IF lo > hi THEN 0
    ELSE IF lo = hi THEN s[lo]
    ELSE LET mid == (lo + hi) \div 2
         IN  SumRange(s, lo, mid) + SumRange(s, mid + 1, hi)

SumSeq(s) == SumRange(s, 1, Len(s))

(* collections.Counter: each distinct element with its number of occurrences *)
Counter(s) == [x \in Range(s) |-> Cardinality({i \in 1..Len(s) : s[i] = x})]

(* Burstiness is sqrt(variance) / avg_length.  With n sentences of lengths *)
(* l and S their sum, avg_length = S/n, variance = sum((n*l - S)^2) / n^3  *)
(* and burstiness^2 = sum((n*l - S)^2) / (n * S^2): the metric is kept as  *)
(* the numerator and the denominator of its square.                        *)
Burstiness(sentence_lengths) ==
    LET n == Len(sentence_lengths)
        S == SumSeq(sentence_lengths)
    IN  IF S > 0
        THEN [num |-> SumSeq([i \in 1..n |-> (n * sentence_lengths[i] - S) ^ 2]),
              den |-> n * S * S]
        ELSE [num |-> 0, den |-> 1]

(* burstiness < t/10 *)
BurstinessLess(b, t) == 100 * b.num < t * t * b.den
(* burstiness > t/10 *)
BurstinessGreater(b, t) == 100 * b.num > t * t * b.den

(* Perplexity is 2^entropy, entropy = -sum(c/N * log2(c/N)) over the word *)
(* counts c, that is the N-th root of N^N / prod(c^c).  The metric is kept *)
(* as the counts and N; err is the sign of the rounding error that log2 and **  *)
(* leave in the double, which decides a comparison only when the exact    *)
(* value is the threshold itself.                                         *)
(* the positions of the first occurrence of each element of s *)
FirstOccurrences(s) ==
    Positions([i \in 1..Len(s) |-> \A j \in 1..(i - 1) : s[j] # s[i]], 1, Len(s))

(* word_counts.items(): the counts, in the order of first occurrence *)
Items(word_counts, words) ==
    LET first == FirstOccurrences(words)
    IN  [k \in 1..Len(first) |-> word_counts[words[first[k]]]]

(* acc * prod(c^c) over the counts c at lo..hi *)
RECURSIVE ProdPow(_, _, _, _)
ProdPow(counts, lo, hi, acc) ==
    IF lo > hi THEN acc
    ELSE IF lo = hi THEN PowMul(acc, counts[lo], counts[lo])
    ELSE LET mid == (lo + hi) \div 2
             left == ProdPow(counts, lo, mid, acc)
         IN  IF left = <<>> THEN <<>> ELSE ProdPow(counts, mid + 1, hi, left)

(* -1, 0 or 1 as the exact perplexity is below, at or above t.  Entropy is *)
(* at most log2 of the number of distinct words, which settles the         *)
(* comparison when fewer than t words are distinct.                        *)
PerplexityCmp(counts, total_words, t) ==
    IF Len(counts) < t THEN -1
    ELSE Cmp(PowMul(<<1>>, total_words, total_words),
             ProdPow(counts, 1, Len(counts), PowMul(<<1>>, t, total_words)))

PerplexityGreater(p, t) ==
    LET c == PerplexityCmp(p.counts, p.total, t) IN c = 1 \/ (c = 0 /\ p.err = 1)
PerplexityLess(p, t) ==
    LET c == PerplexityCmp(p.counts, p.total, t) IN c = -1 \/ (c = 0 /\ p.err = -1)

PerplexityThresholds == {10, 20, 80, 150}

(* The rounding errors the double can carry. *)
PerplexityErrors(counts, total_words) ==
    IF \E t \in PerplexityThresholds : PerplexityCmp(counts, total_words, t) = 0
    THEN {-1, 0, 1}
    ELSE {0}

FirstWord(s) == IF Split(s) # <<>> THEN Split(s)[1] ELSE <<>>

(* Lines 23-25: the text cleaned, its sentences and its words. *)
Tokenize(raw) ==
    LET text == Normalize(raw)
    IN  [text |-> text, sentences |-> Sentences(text), words |-> Split(text)]

(* Lines 37-38: sentence_lengths, one word count per sentence *)
SentenceLengths(sentences) == [i \in 1..Len(sentences) |-> Len(Split(sentences[i]))]

(* The quotient of line 55 turned over. *)
DiversityInverted(words, total_words) == FlDiv(total_words, Cardinality(Range(words)))

(* Lines 54-56: len(set(words)) / total_words *)
Diversity(words, total_words) == FlDiv(Cardinality(Range(words)), total_words)

(* Line 59: the pairs of adjacent words *)
Bigrams(words) == [i \in 1..(Len(words) - 1) |-> <<words[i], words[i + 1]>>]

(* Every occurrence of a repeated pair counted, not the pair once. *)
RepetitionPerOccurrence(bigram_counts, bigrams) ==
    FlDiv(Cardinality({i \in 1..Len(bigrams) : bigram_counts[bigrams[i]] > 1}), Len(bigrams))

(* Lines 60-62: sum(1 for count in bigram_counts.values() if count > 1)    *)
(* over len(bigrams)                                                       *)
Repetition(bigram_counts, bigrams) ==
    FlDiv(Cardinality({b \in DOMAIN bigram_counts : bigram_counts[b] > 1}), Len(bigrams))

(* Line 66: the first word of each sentence *)
SentenceStarts(sentences) == [i \in 1..Len(sentences) |-> FirstWord(sentences[i])]

(* The sentences whose first word opens no other sentence, over the       *)
(* sentence count.                                                         *)
StartDiversityUnique(sentence_starts, sentences) ==
    IF sentences # <<>>
    THEN FlDiv(Cardinality({i \in 1..Len(sentence_starts) :
                               \A j \in 1..Len(sentence_starts) :
                                   j # i => sentence_starts[j] # sentence_starts[i]}),
               Len(sentences))
    ELSE FlInt(0)

(* Line 67: len(set(sentence_starts)) / len(sentences) if sentences else 0 *)
StartDiversity(sentence_starts, sentences) ==
    IF sentences # <<>>
    THEN FlDiv(Cardinality(Range(sentence_starts)), Len(sentences))
    ELSE FlInt(0)

(* The locals of calculate_perplexity_score once the metrics are computed, *)
(* the perplexity taken as exact.                                          *)
Locals(tokens) ==
    LET text == tokens.text
        sentences == tokens.sentences
        words == tokens.words
        sentence_lengths == SentenceLengths(sentences)
        word_counts == Counter(words)
        total_words == Len(words)
        bigrams == Bigrams(words)
        bigram_counts == Counter(bigrams)
        sentence_starts == SentenceStarts(sentences)
    IN  [text |-> text,
         sentences |-> sentences,
         words |-> words,
         sentence_lengths |-> sentence_lengths,
         word_counts |-> word_counts,
         total_words |-> total_words,
         bigrams |-> bigrams,
         bigram_counts |-> bigram_counts,
         sentence_starts |-> sentence_starts,
         metrics |->
            [burstiness |-> Burstiness(sentence_lengths),
             perplexity |->
                [counts |-> Items(word_counts, words), total |-> total_words, err |-> 0],
             diversity |-> Diversity(words, total_words),
             repetition |-> Repetition(bigram_counts, bigrams),
             start_diversity |-> StartDiversity(sentence_starts, sentences)]]

(***************************************************************************)
(* The score (lines 75-101).                                               *)
(***************************************************************************)
(* The brackets with <= in place of <. *)
BurstinessPointsInclusive(burstiness) ==
    IF ~BurstinessGreater(burstiness, 3) THEN 40
    ELSE IF ~BurstinessGreater(burstiness, 6) THEN 25
    ELSE IF ~BurstinessGreater(burstiness, 10) THEN 10
    ELSE 0

(* The points of the first two brackets exchanged. *)
BurstinessPointsSwapped(burstiness) ==
    IF BurstinessLess(burstiness, 3) THEN 25
    ELSE IF BurstinessLess(burstiness, 6) THEN 40
    ELSE IF BurstinessLess(burstiness, 10) THEN 10
    ELSE 0

BurstinessPoints(burstiness) ==
    IF BurstinessLess(burstiness, 3) THEN 40
    ELSE IF BurstinessLess(burstiness, 6) THEN 25
    ELSE IF BurstinessLess(burstiness, 10) THEN 10
    ELSE 0

RepetitionPoints(repetition_score) ==
    FlMin(FlInt(25), FlMulInt(repetition_score, 100))

StartPoints(start_diversity) ==
    IF FlLess(start_diversity, Literal(5, 10)) THEN 20
    ELSE IF FlLess(start_diversity, Literal(7, 10)) THEN 10
    ELSE 0

PerplexityPoints(perplexity) ==
    IF PerplexityGreater(perplexity, 20) /\ PerplexityLess(perplexity, 80) THEN 15
    ELSE IF PerplexityGreater(perplexity, 10) /\ PerplexityLess(perplexity, 150) THEN 8
    ELSE 0

AiScore(metrics) ==
    FlAdd(FlAdd(FlAdd(FlInt(BurstinessPoints(metrics.burstiness)),
                      RepetitionPoints(metrics.repetition)),
                FlInt(StartPoints(metrics.start_diversity))),
          FlInt(PerplexityPoints(metrics.perplexity)))

(* The score passed on as it is, without the clamp. *)
AiProbabilityUnclamped(ai_score) == ai_score

(* min(95, max(5, ai_score)) *)
AiProbability(ai_score) == FlMin(FlInt(95), FlMax(FlInt(5), ai_score))

(***************************************************************************)
(* generate_analysis (lines 116-148).  The strings are those of the source *)
(* without the pictographs that open the observations.                     *)
(***************************************************************************)
Headline(ai_prob) ==
    IF FlLess(FlInt(80), ai_prob)
    THEN <<"Very likely AI-generated",
           "Text shows high uniformity and predictable patterns">>
    ELSE IF FlLess(FlInt(60), ai_prob)
    THEN <<"Likely AI-generated",
           "Some indicators of artificial generation present">>
    ELSE IF FlLess(FlInt(40), ai_prob)
    THEN <<"Mixed signals - could be AI or human",
           "Text shows both human and AI characteristics">>
    ELSE IF FlLess(FlInt(20), ai_prob)
    THEN <<"Likely human-written",
           "Shows good variation and natural patterns">>
    ELSE <<"Very likely human-written",
           "Strong indicators of human creativity and variation">>

UniformWarning == "Sentences are very uniform in length"
VariationNote == "Good sentence length variation"
RepetitionWarning == "High repetition in word patterns"
OpenerWarning == "Limited variety in sentence beginnings"

(* The observation on the sentence openers made first. *)
ObservationsOpenerFirst(metrics) ==
    (IF FlLess(metrics.start_diversity, Literal(5, 10)) THEN <<OpenerWarning>> ELSE <<>>)
    \o (IF BurstinessLess(metrics.burstiness, 3) THEN <<UniformWarning>>
        ELSE IF BurstinessGreater(metrics.burstiness, 10) THEN <<VariationNote>>
        ELSE <<>>)
    \o (IF FlLess(Literal(1, 10), metrics.repetition) THEN <<RepetitionWarning>> ELSE <<>>)

Observations(metrics) ==
    (IF BurstinessLess(metrics.burstiness, 3) THEN <<UniformWarning>>
     ELSE IF BurstinessGreater(metrics.burstiness, 10) THEN <<VariationNote>>
     ELSE <<>>)
    \o (IF FlLess(Literal(1, 10), metrics.repetition) THEN <<RepetitionWarning>> ELSE <<>>)
    \o (IF FlLess(metrics.start_diversity, Literal(5, 10)) THEN <<OpenerWarning>> ELSE <<>>)

GenerateAnalysis(ai_prob, metrics) == Headline(ai_prob) \o Observations(metrics)

(***************************************************************************)
(* The returned dicts (lines 20, 28 and 103-114).  ai_probability and      *)
(* human_probability are in tenths, diversity, repetition and              *)
(* start_diversity in thousandths; burstiness and perplexity, which are    *)
(* irrational, are carried as the metrics hold them.                       *)
(***************************************************************************)
TooShort == [error |-> "Text too short for analysis"]
Unreliable == [error |-> "Text too short for reliable analysis"]

ScoreResult(ai_probability, metrics) ==
    [ai_probability |-> RoundDec(ai_probability, 10),
     human_probability |-> RoundDec(FlSub(FlInt(100), ai_probability), 10),
     metrics |->
        [burstiness |-> metrics.burstiness,
         perplexity |-> metrics.perplexity,
         diversity |-> RoundDec(metrics.diversity, 1000),
         repetition |-> RoundDec(metrics.repetition, 1000),
         start_diversity |-> RoundDec(metrics.start_diversity, 1000)],
     analysis |-> GenerateAnalysis(ai_probability, metrics)]

(***************************************************************************)
(* The texts the function is called with.                                  *)
(***************************************************************************)
RECURSIVE ConcatRange(_, _, _)
ConcatRange(parts, lo, hi) ==
    IF lo > hi THEN <<>>
    ELSE IF lo = hi THEN parts[lo]
    ELSE LET mid == (lo + hi) \div 2
         IN  ConcatRange(parts, lo, mid) \o ConcatRange(parts, mid + 1, hi)

Concat(parts) == ConcatRange(parts, 1, Len(parts))

(* Texts of at most MaxPieces pieces, each two words, a capital with a     *)
(* symbol, a word that ends a sentence or a run of terminators and a       *)
(* newline.                                                                *)
MaxPieces == 4
Pieces ==
    << <<"a", " ", "b", " ">>, <<"C", ",", " ">>, <<"d", ".">>, <<" ", "?", "!", "\n">> >>

PieceTexts ==
    UNION {{Concat([i \in 1..k |-> Pieces[f[i]]]) : f \in [1..k -> 1..Len(Pieces)]}
           : k \in 0..MaxPieces}

(* Texts of n <= MaxSentences sentences: the first j of one word, the     *)
(* others of len words (at most MaxSentenceLen), opened in turn by one of  *)
(* d capitalised words and filled with words that are all distinct (fresh) *)
(* or all the same.                                                        *)
MaxSentences == 5
MaxSentenceLen == 7

Opener(k) == <<"T", LowerSeq[k + 1]>>
FreshWord(g) == <<LowerSeq[(g \div 10) + 1], LowerSeq[(g % 10) + 1]>>
SameWord == <<"x">>
Terminator(i) == IF i % 3 = 1 THEN <<".">> ELSE IF i % 3 = 2 THEN <<"!">> ELSE <<"?", "!">>

SentenceChars(i, j, len, d, fresh) ==
    LET g0 == IF i <= j THEN 0 ELSE (i - 1 - j) * (len - 1)
    IN  Opener((i - 1) % d)
        \o (IF i <= j THEN <<>>
            ELSE Concat([k \in 1..(len - 1) |->
                           <<" ">> \o (IF fresh THEN FreshWord(g0 + k - 1) ELSE SameWord)]))
        \o Terminator(i) \o <<" ">>

SentenceText(n, j, len, d, fresh) ==
    Concat([i \in 1..n |-> SentenceChars(i, j, len, d, fresh)])

SentenceTexts ==
    UNION {{SentenceText(n, j, len, d, fresh) :
                j \in 0..(n - 1), len \in 1..MaxSentenceLen, d \in 1..n, fresh \in BOOLEAN}
           : n \in 1..MaxSentences}

(* The scenario of four three-word sentences that all open with "The". *)
CatDogText ==
    <<"T", "h", "e", " ", "c", "a", "t", " ", "s", "a", "t", ".", " ", "T",
       "h", "e", " ", "d", "o", "g", " ", "r", "a", "n", ".", " ", "T", "h",
       "e", " ", "b", "i", "r", "d", " ", "f", "l", "e", "w", ".", " ", "T",
       "h", "e", " ", "f", "i", "s", "h", " ", "s", "w", "a", "m", ".">>

(* One sentence "a." and then one of LongWords times the word "a". *)
LongWords == 2000
LongText ==
    [i \in 1..(2 + 2 * LongWords) |->
        IF i = 2 THEN "." ELSE IF i % 2 = 1 /\ i > 1 THEN " " ELSE "a"]

(* Two sentences of 26 and 24 one-letter words out of 13, both opened by   *)
(* "a", in which one pair of adjacent words, "a b", occurs twice: the      *)
(* words walk round the 13 letters in steps of 1, 2 and then 1, 3, 4.      *)
RECURSIVE Walk(_, _, _)
Walk(from, step, count) ==
    IF count = 0 THEN <<>>
    ELSE <<(from + step) % 13>> \o Walk((from + step) % 13, step, count - 1)

WalkSentence(indices) ==
    Concat([i \in 1..Len(indices) |->
               (IF i = 1 THEN <<>> ELSE <<" ">>) \o <<LowerSeq[indices[i] + 1]>>])
    \o <<".">>

WalkText ==
    WalkSentence(<<0>> \o Walk(0, 1, 13) \o Walk(0, 2, 12))
    \o <<" ">>
    \o WalkSentence(<<0, 1>> \o Walk(1, 3, 13) \o Walk(1, 4, 9))

Inputs == PieceTexts \cup SentenceTexts \cup {CatDogText, LongText, WalkText}

(***************************************************************************)
(* The state: the text main passes to the call, where main is, the locals  *)
(* the call assigned, the value it returned and what main printed.         *)
(***************************************************************************)
VARIABLES text, pc, locals, result, stdout

vars == <<text, pc, locals, result, stdout>>

Unset == [unset |-> TRUE]

(* main before it has its text *)
Init ==
    /\ text = Unset
    /\ pc = "read"
    /\ locals = Unset
    /\ result = Unset
    /\ stdout = Unset

(* main, lines 157-168: the text is --text, what the file holds or what    *)
(* stdin holds                                                             *)
ReadText ==
    /\ pc = "read"
    /\ text' \in Inputs
    /\ pc' = "call"
    /\ UNCHANGED <<locals, result, stdout>>

(* main, lines 163-165: the file cannot be read; main prints the error and *)
(* returns without the call                                                *)
FileError ==
    /\ pc = "read"
    /\ stdout' = [error |-> "Could not read file"]
    /\ pc' = "done"
    /\ UNCHANGED <<text, locals, result>>

(* Lines 19-20 *)
TextTooShort(raw) == raw = <<>> \/ Len(Strip(raw)) < 10

(* The word count tested with <= in place of <. *)
TokensTooFewInclusive(tokens) == Len(tokens.sentences) < 1 \/ Len(tokens.words) <= 5

(* Lines 27-28 *)
TokensTooFew(tokens) == Len(tokens.sentences) < 1 \/ Len(tokens.words) < 5

(* Lines 75-114, for the locals l *)
Scored(l) ==
    LET ai_score == AiScore(l.metrics)
        ai_probability == AiProbability(ai_score)
    IN  [locals |-> [name \in DOMAIN l \cup {"ai_score", "ai_probability"} |->
                        IF name = "ai_score" THEN ai_score
                        ELSE IF name = "ai_probability" THEN ai_probability
                        ELSE l[name]],
         result |-> ScoreResult(ai_probability, l.metrics)]

(* calculate_perplexity_score(raw): the locals and the returned value of   *)
(* every outcome of the call (one, but for what the rounding error of the  *)
(* perplexity decides).                                                    *)
CalculatePerplexityScore(raw) ==
    IF TextTooShort(raw) THEN {[locals |-> [text |-> raw], result |-> TooShort]}
    ELSE LET tokens == Tokenize(raw)
         IN  IF TokensTooFew(tokens) THEN {[locals |-> tokens, result |-> Unreliable]}
             ELSE LET l == Locals(tokens)
                      p == l.metrics.perplexity
                  IN  {Scored([l EXCEPT !.metrics.perplexity.err = err]) :
                          err \in PerplexityErrors(p.counts, p.total)}

(* main, line 170: the call *)
Call ==
    /\ pc = "call"
    /\ \E out \in CalculatePerplexityScore(text) :
          /\ locals' = out.locals
          /\ result' = out.result
    /\ pc' = "print"
    /\ UNCHANGED <<text, stdout>>

(* main, line 171: print(json.dumps(result, indent=2)) *)
WriteOutput ==
    /\ pc = "print"
    /\ stdout' = result
    /\ pc' = "done"
    /\ UNCHANGED <<text, locals, result>>

Next == ReadText \/ FileError \/ Call \/ WriteOutput

Spec == Init /\ [][Next]_vars


(***************************************************************************)
(* What the call returned.                                                 *)
(***************************************************************************)
Returned == result # Unset
IsError == Returned /\ "error" \in DOMAIN result
IsScore == Returned /\ "ai_probability" \in DOMAIN result

ScoreKeys == {"ai_probability", "human_probability", "metrics", "analysis"}

(* x as a double is at least the integer n / at most the integer n *)
AtLeast(x, n) == ~FlLess(x, FlInt(n))
AtMost(x, n) == ~FlLess(FlInt(n), x)

C3_ErrorPrecedence ==
    Returned =>
        /\ IF text = <<>> \/ Len(Strip(text)) < 10
           THEN result = [error |-> "Text too short for analysis"]
           ELSE IF Len(locals.sentences) < 1 \/ Len(locals.words) < 5
           THEN result = [error |-> "Text too short for reliable analysis"]
           ELSE DOMAIN result = ScoreKeys
        /\ IsError => DOMAIN result = {"error"}

(* A text without a terminator, of one sentence and five words, scored. *)
C3_Witness ==
    /\ IsScore
    /\ \A i \in 1..Len(text) : ~IsTerm(text[i])
    /\ Len(locals.sentences) = 1
    /\ Len(locals.words) = 5

(***************************************************************************)
(* C4: for every text that passes both preconditions the divisors of the   *)
(* metrics (sentence count, sum of the sentence lengths and so their mean, *)
(* word count, bigram count = word count - 1) are not zero, and            *)
(* burstiness >= 0, repetition >= 0, 0 < diversity <= 1 and                *)
(* 0 < start_diversity <= 1.                                               *)
(***************************************************************************)
C4_MetricsDefined ==
    IsScore =>
        /\ Len(locals.sentences) > 0
        /\ Len(locals.sentence_lengths) = Len(locals.sentences)
        /\ SumSeq(locals.sentence_lengths) > 0
        /\ locals.total_words > 0
        /\ Len(locals.bigrams) = locals.total_words - 1
        /\ Len(locals.bigrams) > 0
        /\ locals.metrics.burstiness.num >= 0 /\ locals.metrics.burstiness.den > 0
        /\ AtLeast(locals.metrics.repetition, 0)
        /\ FlLess(FlInt(0), locals.metrics.diversity)
        /\ AtMost(locals.metrics.diversity, 1)
        /\ FlLess(FlInt(0), locals.metrics.start_diversity)
        /\ AtMost(locals.metrics.start_diversity, 1)

(* Every bound met at once: burstiness 0, repetition 0, diversity 1 and *)
(* start_diversity 1, of one sentence.                                   *)
C4_Witness ==
    /\ IsScore
    /\ Len(locals.sentences) = 1
    /\ locals.metrics.burstiness.num = 0
    /\ result.metrics.repetition = 0
    /\ result.metrics.diversity = 1000
    /\ result.metrics.start_diversity = 1000

(***************************************************************************)
(* C2: in every score result the returned ai_probability and the returned  *)
(* human_probability, each rounded to one decimal, sum to exactly 100      *)
(* (1000 tenths).                                                          *)
(***************************************************************************)
C2_SumIsHundred ==
    IsScore => result.ai_probability + result.human_probability = 1000

(***************************************************************************)
(* C6: in every score result the analysis starts with the headline and the *)
(* explanation of the bracket that the thresholds > 80, > 60, > 40, > 20,  *)
(* else select for the ai_probability returned in that result.             *)
(***************************************************************************)
HeadlineOfReturned(tenths) ==
    IF tenths > 800
    THEN <<"Very likely AI-generated",
           "Text shows high uniformity and predictable patterns">>
    ELSE IF tenths > 600
    THEN <<"Likely AI-generated",
           "Some indicators of artificial generation present">>
    ELSE IF tenths > 400
    THEN <<"Mixed signals - could be AI or human",
           "Text shows both human and AI characteristics">>
    ELSE IF tenths > 200
    THEN <<"Likely human-written",
           "Shows good variation and natural patterns">>
    ELSE <<"Very likely human-written",
           "Strong indicators of human creativity and variation">>

(* C6: the first two strings of the analysis are the pair of the bracket  *)
(* of the returned ai_probability.                                         *)
C6_HeadlineOfReturnedValue ==
    IsScore =>
        /\ Len(result.analysis) >= 2
        /\ SubSeq(result.analysis, 1, 2) = HeadlineOfReturned(result.ai_probability)

(***************************************************************************)
(* C9.  The first word of a sentence is what precedes its first white      *)
(* space.                                                                  *)
(***************************************************************************)
Opening(s) ==
    LET spaces == {i \in 1..Len(s) : IsSpace(s[i])}
    IN  IF spaces = {} THEN s
        ELSE SubSeq(s, 1, (CHOOSE i \in spaces : \A j \in spaces : i <= j) - 1)

Openings == [i \in 1..Len(locals.sentences) |-> Opening(locals.sentences[i])]

UniqueOpenings ==
    {i \in 1..Len(Openings) : \A j \in 1..Len(Openings) : j # i => Openings[j] # Openings[i]}

(* C9 as stated: start_diversity is the number of sentences whose first   *)
(* word is the first word of no other sentence, over the sentence count.   *)
C9_FractionOfUniqueOpeners ==
    IsScore =>
        FlCmp(locals.metrics.start_diversity,
              FlDiv(Cardinality(UniqueOpenings), Len(locals.sentences))) = 0

(* C9 amended: start_diversity is the number of distinct sentence-first   *)
(* words over the sentence count.                                          *)
C9_FractionOfDistinctOpeners ==
    IsScore =>
        /\ FlCmp(locals.metrics.start_diversity,
                 FlDiv(Cardinality(Range(Openings)), Len(locals.sentences))) = 0
        /\ result.metrics.start_diversity = RoundDec(locals.metrics.start_diversity, 1000)

(* Two first words over three or more sentences, one of them repeated:    *)
(* the distinct first words are more than the unique ones.                 *)
C9_Witness ==
    /\ IsScore
    /\ Cardinality(Range(Openings)) = 2
    /\ Cardinality(UniqueOpenings) < 2
    /\ Len(locals.sentences) >= 3

(***************************************************************************)
(* C5: the raw score is the sum of four contributions, none of them from   *)
(* diversity: burstiness b gives 40 if b < 0.3, 25 if 0.3 <= b < 0.6, 10   *)
(* if 0.6 <= b < 1.0, else 0; repetition r gives min(25, 100 r);           *)
(* start_diversity s gives 20 if s < 0.5, 10 if 0.5 <= s < 0.7, else 0;    *)
(* perplexity p gives 15 if 20 < p < 80, else 8 if 10 < p < 150, else 0;   *)
(* and ai_probability is the raw score clamped to [5, 95].  The brackets   *)
(* are taken on the exact metrics: the square of the burstiness, repeated  *)
(* pairs over pairs, distinct openers over sentences.  The double that     *)
(* holds the score is compared in thousandths, within the half unit its    *)
(* rounding leaves.                                                        *)
(***************************************************************************)
BurstinessShare ==
    LET b == locals.metrics.burstiness
    IN  IF 100 * b.num < 9 * b.den THEN 40
        ELSE IF 100 * b.num < 36 * b.den THEN 25
        ELSE IF 100 * b.num < 100 * b.den THEN 10
        ELSE 0

RepeatedPairs ==
    Cardinality({b \in DOMAIN locals.bigram_counts : locals.bigram_counts[b] > 1})

(* min(25, 100 r) times the number of pairs *)
RepetitionShareTimesPairs ==
    LET pairs == Len(locals.bigrams)
    IN  IF 100 * RepeatedPairs < 25 * pairs THEN 100 * RepeatedPairs ELSE 25 * pairs

StartShare ==
    LET distinct == Cardinality(Range(locals.sentence_starts))
        n == Len(locals.sentences)
    IN  IF 2 * distinct < n THEN 20
        ELSE IF 10 * distinct < 7 * n THEN 10
        ELSE 0

PerplexityShare ==
    LET p == locals.metrics.perplexity
    IN  IF PerplexityGreater(p, 20) /\ PerplexityLess(p, 80) THEN 15
        ELSE IF PerplexityGreater(p, 10) /\ PerplexityLess(p, 150) THEN 8
        ELSE 0

Abs(x) == IF x < 0 THEN -x ELSE x

UniformSentences ==
    \A i, j \in 1..Len(locals.sentence_lengths) :
        locals.sentence_lengths[i] = locals.sentence_lengths[j]

FewOpeners == 2 * Cardinality(Range(Openings)) < Len(locals.sentences)

(* C7: uniform sentences with few openers score at least 60 and carry the *)
(* two warnings in order, without the note of good variation.              *)
C7_UniformTextFlagged ==
    (IsScore /\ UniformSentences /\ FewOpeners) =>
        /\ result.ai_probability >= 600
        /\ \E i, j \in 3..Len(result.analysis) :
              /\ i < j
              /\ result.analysis[i] = "Sentences are very uniform in length"
              /\ result.analysis[j] = "Limited variety in sentence beginnings"
        /\ \A i \in 1..Len(result.analysis) :
              result.analysis[i] # "Good sentence length variation"

(* The four three-word sentences that all open with "The", scored. *)
C7_Witness ==
    /\ IsScore
    /\ text = CatDogText
    /\ UniformSentences /\ FewOpeners
    /\ Len(locals.sentences) = 4
    /\ result.metrics.start_diversity = 250

(***************************************************************************)
(* C8: the points given for burstiness never increase with it: b1 <= b2    *)
(* gives points(b1) >= points(b2), and a scored text whose burstiness is   *)
(* replaced by a lower one, the other metrics kept, has an ai_probability  *)
(* that is not lower.  The burstiness values are the tenths 0.0 .. 1.1 and *)
(* that of the text.                                                       *)
(***************************************************************************)
MaxTenths == 11

Tenths(t) == [num |-> t * t, den |-> 100]

(* C8: lower burstiness never gives fewer points nor a lower               *)
(* ai_probability.                                                         *)
C8_BurstinessPointsMonotone ==
    /\ \A t1, t2 \in 0..MaxTenths :
          t1 <= t2 => BurstinessPoints(Tenths(t1)) >= BurstinessPoints(Tenths(t2))
    /\ IsScore =>
          \A t \in 0..MaxTenths :
              LET b == locals.metrics.burstiness
                  other == AiProbability(AiScore([locals.metrics EXCEPT !.burstiness = Tenths(t)]))
              IN  /\ ~BurstinessLess(b, t) =>
                        /\ BurstinessPoints(Tenths(t)) >= BurstinessPoints(b)
                        /\ ~FlLess(other, locals.ai_probability)
                  /\ ~BurstinessGreater(b, t) =>
                        /\ BurstinessPoints(Tenths(t)) <= BurstinessPoints(b)
                        /\ ~FlLess(locals.ai_probability, other)

(* A text of burstiness over 1.0 that sentences of equal length would    *)
(* score strictly higher.                                                 *)
C8_Witness ==
    /\ IsScore
    /\ BurstinessGreater(locals.metrics.burstiness, 10)
    /\ FlLess(locals.ai_probability,
              AiProbability(AiScore([locals.metrics EXCEPT !.burstiness = Tenths(0)])))

(***************************************************************************)
(* C10: repetition is the number of distinct pairs of adjacent words that  *)
(* occur more than once over the number of pairs, word count - 1, the      *)
(* pairs taken over the words of the whole cleaned text: a pair that spans *)
(* the end of a sentence counts, and a pair that occurs k > 1 times adds 1.*)
(***************************************************************************)
Pairs == [i \in 1..(Len(locals.words) - 1) |-> <<locals.words[i], locals.words[i + 1]>>]

Occurrences(pair) == Cardinality({i \in 1..Len(Pairs) : Pairs[i] = pair})

(* C10: repetition is repeated distinct pairs over all pairs of the flat   *)
(* word sequence.                                                          *)
C10_RepetitionOfFlatPairs ==
    IsScore =>
        /\ FlCmp(locals.metrics.repetition,
                 FlDiv(Cardinality({pair \in Range(Pairs) : Occurrences(pair) > 1}),
                       Len(locals.words) - 1)) = 0
        /\ result.metrics.repetition = RoundDec(locals.metrics.repetition, 1000)

(* A repeated pair whose first word ends a sentence, and a pair that      *)
(* occurs three times or more.                                             *)
C10_Witness ==
    /\ IsScore
    /\ \E i \in 1..Len(Pairs) :
          /\ IsTerm(Pairs[i][1][Len(Pairs[i][1])])
          /\ IsWordChar(Pairs[i][2][1])
          /\ Occurrences(Pairs[i]) > 1
    /\ \E pair \in Range(Pairs) : Occurrences(pair) >= 3
    /\ Cardinality({pair \in Range(Pairs) : Occurrences(pair) > 1}) < Len(Pairs)

=============================================================================
